---- MODULE Spec2Model ----
(***************************************************************************)
(* Job execution and segment-analysis engine of the workflow analyzer:     *)
(*   runner/better_video_analysis_fixed.py  (split, analyse_segment, run)  *)
(*   runner/runner_service.py               (JobProcessor)                 *)
(***************************************************************************)
EXTENDS Integers, Sequences, FiniteSets, TLC

\* ------------------------------------------------------------------ bounds
MaxDuration == 25      \* split: durations 0..MaxDuration (units of time)
MaxSegLen == 10        \* split: segment lengths 1..MaxSegLen
MaxSegments == 4       \* run: videos of 0..MaxSegments segments
MaxFaults == 1         \* run: injected failures of the remote service per run
MaxPolls == 1          \* wait_for_file_active: max_wait / check_interval, scaled
NumWorkers == 2        \* runner processes polling one backlog
NumJobs == 2           \* jobs in the backlog of a single runner
NumContended == 1      \* jobs in the backlog that concurrent runners poll
MaxJobFaults == 1      \* failures injected into the operations of concurrent runners
MaxSoloFaults == 2     \* failures injected into the operations of a single runner
MaxSegPolls == 3       \* wait_for_file_active on one segment: max_wait / check_interval
MaxHookFaults == 2     \* webhook and alert deliveries that fail
MaxUpFaults == 3       \* failures injected into the transfers of a single runner
MaxKeywords == 3       \* keywords of _categorize_error in one error message

\* ------------------------------------------------------- program constants
MaxConcurrent == 3     \* run: max_concurrent
UploadAttempts == 5    \* upload_file: stop_after_attempt(5)
GenerateAttempts == 3  \* generate_content_with_retry: stop_after_attempt(3)
DownloadAttempts == 3  \* _download_video: stop_after_attempt(3)
AnalysisAttempts == 2  \* _run_analysis: stop_after_attempt(2)
ResultAttempts == 3    \* _upload_results: stop_after_attempt(3)
CompressThreshold == 100  \* analyse_segment: file_size_mb > 100

VARIABLES
    duration_s,    \* split: int(total_frames / fps)
    segment_len,   \* VideoAnalyser.segment_len
    segments,      \* the list split returns
    task,          \* run: per segment, the state of its process_with_limit task
    permits,       \* run: value of the asyncio.Semaphore
    results,       \* run: the results list, in order of completion
    runState,      \* "init" | "running" | "returned" | "raised" | "written"
    written,       \* cli: the list dumped to the output JSON file (runState "written")
    faultsLeft,    \* failures of the remote service the environment may still inject
    max_wait,      \* wait_for_file_active: status queries that fit into max_wait
    slice_mb,      \* per segment, the size in MB of its stream-copied slice
    disk,          \* per segment, the files next to the video: slice and compressed slice
    uploaded,      \* per segment, the encoding of the file handed to upload_file
    jobs,          \* the backlog: per job its row (status, worker_id, error, error_category,
                   \* result_json_url, result_pdf_url, processing_time)
    worker,        \* per runner process: the JobProcessor and its position in run
    claimedBy,     \* per job, the workers whose _get_next_job returned it
    recorded,      \* per job, the statuses written to its row by _update_job_status
    webhooks,      \* per job, the statuses posted to the webhook
    alerts,        \* per job, the critical alerts emitted
    webhook_url,   \* whether WEBHOOK_URL is configured
    jobFaults,     \* failures the environment may still inject into the runners
    analysisRuns,  \* per job, the runs of the analysis subprocess and how each ended
    tempdir,       \* per job, its TemporaryDirectory and the files in it
    undelivered,   \* per job, the notifications whose delivery failed
    hookFaults,    \* delivery failures the environment may still inject
    bucket,        \* per job, the artifacts stored in the 'results' bucket
    payloads       \* per job, the payloads posted to the webhook

pipeVars == <<duration_s, segment_len, segments, task, permits, results,
              runState, written, faultsLeft, max_wait, slice_mb, disk, uploaded>>

workerVars == <<jobs, worker, claimedBy, recorded, webhooks, alerts, webhook_url,
                jobFaults, analysisRuns, tempdir, undelivered, hookFaults,
                bucket, payloads>>

vars == <<pipeVars, workerVars>>

Min(a, b) == IF a <= b THEN a ELSE b

\* --------------------------------------------------------------- split
\* min(start + self.segment_len, duration_s), without the min
SegEnd_nomin(start, D, L) == start + L

\* end = min(start + self.segment_len, duration_s)
SegEnd(start, D, L) == Min(start + L, D)

RECURSIVE SplitFrom(_, _, _, _)
\* for i, start in enumerate(range(0, duration_s, self.segment_len), 1)
SplitFrom(start, i, D, L) ==
    IF start >= D THEN <<>>
    ELSE <<[idx |-> i, start_s |-> start, end_s |-> SegEnd(start, D, L)]>>
         \o SplitFrom(start + L, i + 1, D, L)

split(D, L) == SplitFrom(0, 1, D, L)

\* ----------------------------------------------------- analyse_segment
RemoteErrs == {"ResourceExhausted", "ServiceUnavailable"}

NoOutcome == [op |-> "none", err |-> "none"]
OkOutcome == [op |-> "ok", err |-> "none"]

NewTask == [pc |-> "queued", uplCalls |-> 0, uplFails |-> 0, genCalls |-> 0,
            genFails |-> 0, delCalls |-> 0, polls |-> 0, handle |-> "none",
            lastErr |-> "none", outcome |-> NoOutcome, path |-> "slice",
            failedSeen |-> FALSE]

\* ---- the files of one segment: src.with_suffix(".seg{start}_{end}.mp4") and
\* ---- seg.path.with_suffix(".compressed.mp4"), each absent or holding an encoding
NoFiles == [slice |-> "absent", compressed |-> "absent"]

\* slice_with_ffmpeg: out = src.with_suffix(f".seg{start_s}_{end_s}.mp4"), the
\* same path with and without compress
OutPath(compress) == "slice"

\* slice_with_ffmpeg(src, start_s, end_s, compress): an existing out is returned
\* as it is, otherwise ffmpeg writes it (libx264 when compress, else stream copy)
slice_with_ffmpeg(files, compress) ==
    LET out == OutPath(compress) IN
    IF files[out] # "absent"
    THEN [files |-> files, out |-> out]
    ELSE [files |-> [files EXCEPT ![out] = IF compress THEN "x264" ELSE "copy"],
          out |-> out]

\* get_file_size_mb(seg.path) of a stream-copied slice of mb megabytes
NeedsCompression(compress_large_files, mb) ==
    compress_large_files /\ mb > CompressThreshold

\* analyse_segment, lines 145-158: the path that is uploaded and the files on disk
PrepareUpload(files, mb) ==
    IF NeedsCompression(TRUE, mb)
    THEN IF files.compressed = "absent"
         THEN slice_with_ffmpeg(files, TRUE)
         ELSE [files |-> files, out |-> "compressed"]
    ELSE [files |-> files, out |-> "slice"]

\* an except clause that swallows every exception of the status query
PollSwallows_all(e) == TRUE

\* wait_for_file_active: except Exception as e: if "not found" in str(e).lower()
PollSwallows(e) == e = "not found"

SegIds == DOMAIN task


\* tenacity without reraise: the last failure is wrapped
Reraise_wrapped(e) == "RetryError"

\* reraise=True: the last attempt's exception is raised as it is
Reraise(e) == e

\* an early give-up: one attempt fewer than configured
StopAfterAttempt_early(attempt, limit) == attempt >= limit - 1

\* tenacity.stop_after_attempt(n)
StopAfterAttempt(attempt, limit) == attempt >= limit

\* content = await generate...  without try/finally: a failure skips the delete
GenerateExit_nofinally(ok) == IF ok THEN "delete" ELSE "return"

\* try: content = await generate_content_with_retry(...)  finally: delete_file
GenerateExit(ok) == "delete"

\* a semaphore that admits regardless of its value
CanAcquire_nolimit(p) == TRUE

\* asyncio.Semaphore.acquire proceeds only while the value is positive
CanAcquire(p) == p > 0

\* run: segments = self.split(video); semaphore = asyncio.Semaphore(max_concurrent)
\* (slice_with_ffmpeg runs ffmpeg with check=True: a failing slice raises out of split)
RunSplit ==
    /\ runState = "init"
    /\ \E sliced \in BOOLEAN :
        IF sliced \/ split(duration_s, segment_len) = <<>>
        THEN /\ segments' = split(duration_s, segment_len)
             /\ task' = [i \in 1..Len(segments') |-> NewTask]
             /\ disk' = [i \in 1..Len(segments') |->
                            slice_with_ffmpeg(NoFiles, FALSE).files]
             /\ uploaded' = [i \in 1..Len(segments') |-> "none"]
             /\ runState' = "running"
        ELSE /\ runState' = "raised"
             /\ UNCHANGED <<segments, task, disk, uploaded>>
    /\ permits' = MaxConcurrent
    /\ UNCHANGED <<duration_s, segment_len, results, written, faultsLeft,
                   max_wait, slice_mb, workerVars>>

\* process_with_limit: async with semaphore (entry), analyse_segment starts
Acquire(s) ==
    /\ runState = "running"
    /\ task[s].pc = "queued"
    /\ CanAcquire(permits)
    /\ permits' = permits - 1
    /\ LET prep == PrepareUpload(disk[s], slice_mb[s])
       IN  /\ disk' = [disk EXCEPT ![s] = prep.files]
           /\ task' = [task EXCEPT ![s].pc = "upload", ![s].path = prep.out]
    /\ UNCHANGED <<duration_s, segment_len, segments, results, runState, written,
                   faultsLeft, max_wait, slice_mb, uploaded,
                   workerVars>>

\* upload_file: one call of genai.upload_file under tenacity (5 attempts, reraise)
Upload(s) ==
    /\ runState = "running"
    /\ task[s].pc = "upload"
    /\ \E r \in {"ok"} \cup RemoteErrs :
        LET n == task[s].uplCalls + 1 IN
        IF r = "ok"
        THEN /\ task' = [task EXCEPT ![s].uplCalls = n, ![s].handle = "open",
                                     ![s].lastErr = "none", ![s].pc = "poll"]
             /\ uploaded' = [uploaded EXCEPT ![s] = disk[s][task[s].path]]
             /\ UNCHANGED faultsLeft
        ELSE /\ faultsLeft > 0
             /\ faultsLeft' = faultsLeft - 1
             /\ task' = [task EXCEPT
                    ![s].uplCalls = n,
                    ![s].uplFails = @ + 1,
                    ![s].lastErr = r,
                    ![s].pc = IF StopAfterAttempt(n, UploadAttempts)
                              THEN "return" ELSE "upload",
                    ![s].outcome = IF StopAfterAttempt(n, UploadAttempts)
                                   THEN [op |-> "upload", err |-> Reraise(r)]
                                   ELSE @]
             /\ UNCHANGED uploaded
    /\ UNCHANGED <<duration_s, segment_len, segments, permits, results, runState,
                   written, max_wait, slice_mb, disk,
                   workerVars>>

\* wait_for_file_active: one iteration of the polling loop (status query, except
\* clause, sleep), or the raise after the loop once max_wait has passed
Poll(s) ==
    /\ runState = "running"
    /\ task[s].pc = "poll"
    /\ IF task[s].polls < max_wait
       THEN \E st \in {"ACTIVE", "FAILED", "PROCESSING", "not found", "error"} :
            CASE st = "ACTIVE" ->
                   /\ task' = [task EXCEPT ![s].pc = "generate", ![s].polls = 0]
                   /\ UNCHANGED faultsLeft
              [] st = "PROCESSING" ->
                   /\ task' = [task EXCEPT ![s].polls = @ + 1]
                   /\ UNCHANGED faultsLeft
              [] OTHER ->
                   LET e == CASE st = "FAILED" -> "File upload failed"
                              [] st = "error" -> "get_file error"
                              [] OTHER -> "not found"
                   IN  IF PollSwallows(e)
                       THEN /\ task' = [task EXCEPT ![s].polls = @ + 1,
                                         ![s].failedSeen = @ \/ st = "FAILED"]
                            /\ UNCHANGED faultsLeft
                       ELSE /\ faultsLeft > 0
                            /\ faultsLeft' = faultsLeft - 1
                            /\ task' = [task EXCEPT ![s].pc = "return",
                                         ![s].polls = IF st = "FAILED" THEN @ ELSE 0,
                                         ![s].failedSeen = @ \/ st = "FAILED",
                                         ![s].outcome = [op |-> "poll", err |-> e]]
       ELSE /\ task' = [task EXCEPT ![s].pc = "return",
                       ![s].outcome = [op |-> "poll", err |-> "did not become active"]]
            /\ UNCHANGED faultsLeft
    /\ UNCHANGED <<duration_s, segment_len, segments, permits, results, runState,
                   written, max_wait, slice_mb, disk, uploaded,
                   workerVars>>

\* generate_content_with_retry: one call of model.generate_content (3 attempts, reraise)
Generate(s) ==
    /\ runState = "running"
    /\ task[s].pc = "generate"
    /\ \E r \in {"ok"} \cup RemoteErrs :
        LET n == task[s].genCalls + 1 IN
        IF r = "ok"
        THEN /\ task' = [task EXCEPT ![s].genCalls = n, ![s].pc = GenerateExit(TRUE),
                                     ![s].lastErr = "none",
                                     ![s].outcome = OkOutcome]
             /\ UNCHANGED faultsLeft
        ELSE /\ faultsLeft > 0
             /\ faultsLeft' = faultsLeft - 1
             /\ task' = [task EXCEPT
                    ![s].genCalls = n,
                    ![s].genFails = @ + 1,
                    ![s].lastErr = r,
                    ![s].pc = IF StopAfterAttempt(n, GenerateAttempts)
                              THEN GenerateExit(FALSE) ELSE "generate",
                    ![s].outcome = IF StopAfterAttempt(n, GenerateAttempts)
                                   THEN [op |-> "generate", err |-> Reraise(r)]
                                   ELSE @]
    /\ UNCHANGED <<duration_s, segment_len, segments, permits, results, runState,
                   written, max_wait, slice_mb, disk, uploaded,
                   workerVars>>

\* analyse_segment: finally: genai.delete_file(active_file.name), errors swallowed
Delete(s) ==
    /\ runState = "running"
    /\ task[s].pc = "delete"
    /\ \E deleted \in BOOLEAN :
        task' = [task EXCEPT ![s].delCalls = @ + 1,
                             ![s].handle = "released",
                             ![s].pc = "return"]
    /\ UNCHANGED <<duration_s, segment_len, segments, permits, results, runState,
                   written, faultsLeft, max_wait, slice_mb, disk, uploaded,
                   workerVars>>

\* a gate that keeps the slot of a finished segment
Release_leak(p) == p

\* process_with_limit: the exit of async with semaphore, by return or by raise
Release(p) == p + 1

\* process_with_limit leaves the semaphore; run: results.append(await coro),
\* which raises out of run when the task raised
Finish(s) ==
    /\ runState = "running"
    /\ task[s].pc = "return"
    /\ permits' = Release(permits)
    /\ task' = [task EXCEPT ![s] = [NewTask EXCEPT !.pc = "done"]]
    /\ IF task[s].outcome = OkOutcome
       THEN /\ results' = Append(results, segments[s].idx)
            /\ UNCHANGED runState
       ELSE /\ runState' = "raised"
            /\ UNCHANGED results
    /\ UNCHANGED <<duration_s, segment_len, segments, written, faultsLeft,
                   max_wait, slice_mb, disk, uploaded,
                   workerVars>>

\* run: return results, once as_completed is exhausted
RunReturn ==
    /\ runState = "running"
    /\ \A s \in SegIds : task[s].pc = "done"
    /\ runState' = "returned"
    /\ UNCHANGED <<duration_s, segment_len, segments, task, permits, results,
                   written, faultsLeft, max_wait, slice_mb, disk, uploaded,
                   workerVars>>

\* a cli that writes what run had collected when it raised
CanWrite_partial(state) == state \in {"returned", "raised"}

\* cli: results = loop.run_until_complete(analyser.run(vid, prompt)) is not in
\* a try block: the write is reached only when run returned
CanWrite(state) == state = "returned"

\* cli: out.write_text(json.dumps(results, indent=2))
CliWrite ==
    /\ CanWrite(runState)
    /\ written' = results
    /\ runState' = "written"
    /\ UNCHANGED <<duration_s, segment_len, segments, task, permits, results,
                   faultsLeft, max_wait, slice_mb, disk, uploaded,
                   workerVars>>

\* ================================================= runner_service.py
Workers == 1..NumWorkers
Jobs == 1..NumJobs
NoJob == 0

\* ---- exceptions: the class, and the keywords of _categorize_error that the
\* ---- lower-cased message contains
NoExc == [kind |-> "none", words |-> {}]

\* ConnectionError(f"Network error downloading video: {e}"), e a connection failure
DlNetwork == [kind |-> "ConnectionError", words |-> {"network", "connection", "video"}]
\* ValueError(f"Invalid video URL format: {video_url}")
DlInvalidUrl == [kind |-> "ValueError", words |-> {"video"}]
\* a storage client error re-raised as it is ("Bucket not found")
DlStorage == [kind |-> "StorageException", words |-> {"bucket"}]
\* ValueError("Downloaded video is empty")
DlEmpty == [kind |-> "ValueError", words |-> {"video"}]
\* IOError(f"Failed to write video file to {video_path}")
DlWrite == [kind |-> "OSError", words |-> {"video"}]
DownloadErrs == {DlNetwork, DlInvalidUrl, DlStorage, DlEmpty, DlWrite}

\* IOError while writing prompt.txt
PromptErr == [kind |-> "OSError", words |-> {}]

\* asyncio.TimeoutError("Analysis exceeded 1 hour time limit")
AnTimeout == [kind |-> "TimeoutError", words |-> {}]
\* RuntimeError(f"API quota/rate limit error: {error_msg}")
AnQuota == [kind |-> "RuntimeError", words |-> {"quota", "rate limit"}]
\* RuntimeError(f"Gemini API error (retrying): {error_msg}")
AnGemini == [kind |-> "RuntimeError", words |-> {}]
\* ValueError(f"Analysis script failed: {error_msg}")
AnScript == [kind |-> "ValueError", words |-> {}]
\* ValueError("Analysis completed but no output JSON was generated")
AnNoJson == [kind |-> "ValueError", words |-> {}]
AnalysisErrs == {AnTimeout, AnQuota, AnGemini, AnScript}

\* how a run of the analysis subprocess can end other than well
AnalysisFailures == {"timeout", "quota", "gemini", "script", "nojson"}

\* _run_analysis: the exception raised for each of them
AnalysisError(r) ==
    CASE r = "timeout" -> AnTimeout
      [] r = "quota" -> AnQuota
      [] r = "gemini" -> AnGemini
      [] r = "script" -> AnScript
      [] OTHER -> AnNoJson

\* ConnectionError(f"Network error uploading JSON: {e}")
UpNetwork == [kind |-> "ConnectionError", words |-> {"network", "connection"}]
\* ValueError(f"Invalid JSON in output file: {e}")
UpInvalidJson == [kind |-> "ValueError", words |-> {}]
\* a storage client error re-raised as it is ("The resource already exists")
UpStorage == [kind |-> "StorageException", words |-> {"resource"}]
\* an OSError of open(json_file, 'rb') or f.read()
UpIO == [kind |-> "OSError", words |-> {}]
ResultErrs == {UpNetwork, UpInvalidJson, UpStorage, UpIO}

\* ---- the PDF report of _upload_results: _generate_pdf_report returns None
\* ---- ("none"), or the report is generated and its upload ends in one of these
PdfOutcomes == {"none", "ok", "network", "unreadable", "empty", "storage"}

\* ConnectionError(f"Network error uploading PDF: {e}")
PdfNetwork == [kind |-> "ConnectionError", words |-> {"network", "connection"}]
\* an OSError of open(pdf_path, 'rb') or f.read()
PdfUnreadable == [kind |-> "OSError", words |-> {}]
\* ValueError("Generated PDF is empty")
PdfEmpty == [kind |-> "ValueError", words |-> {}]

\* _upload_results: the exception raised inside the try block of the PDF upload
PdfError(p) ==
    CASE p = "network" -> PdfNetwork
      [] p = "unreadable" -> PdfUnreadable
      [] p = "empty" -> PdfEmpty
      [] p = "storage" -> UpStorage
      [] OTHER -> NoExc

\* supabase.table('jobs').update(...).execute() raising
UpdateErr == [kind |-> "APIError", words |-> {}]
\* tempfile.TemporaryDirectory().__exit__ failing to remove the directory
TeardownErr == [kind |-> "OSError", words |-> {}]
\* an aiohttp error of a webhook or alert post
HookErr == [kind |-> "ClientError", words |-> {}]

\* ---- webhook and alert delivery
HookResults == {"200", "non200", "timeout", "connection", "build"}

\* a notification whose failures reach the caller
HookRaises_propagates(h) == h # "200"

\* _send_webhook_notification, _send_critical_error_alert: every failure is
\* caught and logged (except asyncio.TimeoutError / except Exception)
HookRaises(h) == FALSE

\* ---- the temporary directory of a job
NoDir == [state |-> "none", files |-> {}]
NewDir == [state |-> "open", files |-> {}]

\* a teardown that reports the directory removed and leaves its files
Teardown_keep(dir, fails) == [dir EXCEPT !.state = "removed"]

\* TemporaryDirectory.__exit__: rmtree of the directory, which may fail
Teardown(dir, fails) ==
    IF fails THEN [dir EXCEPT !.state = "undeleted"]
    ELSE [state |-> "removed", files |-> {}]

\* the keywords in the name of an exception class, lower-cased
ClassWords(kind) ==
    CASE kind = "ConnectionError" -> {"connection"}
      [] kind = "TimeoutError" -> {"timeout"}
      [] OTHER -> {}

\* a retry wrapper with reraise=True
RetryExhausted_reraise(e) == e

\* tenacity @retry without reraise: RetryError(last_attempt), whose message is
\* "RetryError[<Future at 0x.. state=finished raised ConnectionError>]"
RetryExhausted(e) == [kind |-> "RetryError", words |-> ClassWords(e.kind)]

\* the Python classes an exception of class kind is an instance of
Bases(kind) ==
    CASE kind = "ConnectionError" -> {"ConnectionError", "OSError"}
      [] kind = "TimeoutError" -> {"TimeoutError", "OSError"}
      [] OTHER -> {kind}

\* a retry condition that holds for every exception
RetryIfExceptionType_any(e, classes) == TRUE

\* retry_if_exception_type(classes)
RetryIfExceptionType(e, classes) == Bases(e.kind) \cap classes # {}

\* _upload_results: except IOError around reading and uploading the PDF
PdfSwallowed(e) == "OSError" \in Bases(e.kind)

\* _upload_results: result_urls when the attempt returns; result_urls['pdf'] is
\* set after the try block of a generated report, whatever it caught
ResultUrls(p) == {"json"} \cup (IF p # "none" THEN {"pdf"} ELSE {})

\* the artifacts an attempt whose JSON upload succeeded has stored
Stored(p) == {"json"} \cup (IF p = "ok" THEN {"pdf"} ELSE {})

DownloadRetryOn == {"ConnectionError", "TimeoutError"}
AnalysisRetryOn == {"RuntimeError", "TimeoutError"}
ResultRetryOn == {"ConnectionError", "TimeoutError", "OSError"}

\* the keywords _categorize_error looks for in the lower-cased message
Keywords == {"quota", "rate limit", "api key", "authentication", "storage", "bucket",
             "timeout", "network", "connection", "memory", "resource", "ffmpeg",
             "video"}

\* a categorization that looks for timeouts first
categorize_error_timeout_first(e) ==
    LET has(k) == k \in e.words IN
    IF has("timeout") THEN "timeout"
    ELSE IF has("quota") \/ has("rate limit") THEN "quota_exceeded"
    ELSE IF has("api key") \/ has("authentication") THEN "api_key_invalid"
    ELSE IF has("storage") \/ has("bucket") THEN "storage_error"
    ELSE IF has("network") \/ has("connection") THEN "network_error"
    ELSE IF has("memory") \/ has("resource") THEN "resource_error"
    ELSE IF has("ffmpeg") \/ has("video") THEN "video_processing_error"
    ELSE "unknown_error"

\* _categorize_error
categorize_error(e) ==
    LET has(k) == k \in e.words IN
    IF has("quota") \/ has("rate limit") THEN "quota_exceeded"
    ELSE IF has("api key") \/ has("authentication") THEN "api_key_invalid"
    ELSE IF has("storage") \/ has("bucket") THEN "storage_error"
    ELSE IF has("timeout") THEN "timeout"
    ELSE IF has("network") \/ has("connection") THEN "network_error"
    ELSE IF has("memory") \/ has("resource") THEN "resource_error"
    ELSE IF has("ffmpeg") \/ has("video") THEN "video_processing_error"
    ELSE "unknown_error"

\* a critical set that also alerts on timeouts
CriticalCategories_withTimeout ==
    {"quota_exceeded", "api_key_invalid", "storage_error", "timeout"}

\* _process_job: if error_category in ['quota_exceeded', 'api_key_invalid', 'storage_error']
CriticalCategories == {"quota_exceeded", "api_key_invalid", "storage_error"}

NewJob == [status |-> "pending", worker_id |-> 0, error_category |-> "none",
           error |-> {}, result_json_url |-> "none", result_pdf_url |-> "none",
           processing_time |-> "none"]

NewWorker == [running |-> TRUE, pc |-> "loop", job |-> NoJob, current_job_id |-> NoJob,
              attempt |-> 0, exc |-> NoExc, opErr |-> NoExc, raisedBy |-> "none",
              claimResult |-> "none", sawPending |-> FALSE, escaped |-> "none",
              result_urls |-> {}, analysis_result |-> {}, stoppedWith |-> NoJob]

\* a claim that also hands out jobs another worker is processing
Claimable_nonatomic(rows) ==
    {j \in DOMAIN rows : rows[j].status \in {"pending", "processing"}}

\* claim_next_job: the rows the stored procedure may claim
Claimable(rows) == {j \in DOMAIN rows : rows[j].status = "pending"}

\* claim_next_job(worker_id): one pending row goes to processing under this worker
claim_next_job(rows, w, j) ==
    [rows EXCEPT ![j].status = "processing", ![j].worker_id = w]

\* _process_job: finally: self.current_job_id = None, and back in run's loop
Finally(wr) ==
    [wr EXCEPT !.pc = "loop", !.job = NoJob, !.current_job_id = NoJob, !.attempt = 0,
               !.exc = NoExc, !.opErr = NoExc, !.raisedBy = "none",
               !.result_urls = {}, !.analysis_result = {}]

\* a loop without the except clause: the exception ends run
Escaped_crash(wr, site) == [Finally(wr) EXCEPT !.pc = "exited", !.escaped = site]

\* run: an exception leaves _process_job after its finally: except Exception
\* logs it and the loop goes to asyncio.sleep(POLL_INTERVAL)
Escaped(wr, site) == [Finally(wr) EXCEPT !.pc = "sleep", !.escaped = site]

\* an exception leaves the body of the with-block: the temporary directory is
\* torn down (which may fail and replace the exception), then except Exception
Raised(wr, op, e, bodyErr, tdFails) ==
    [wr EXCEPT !.pc = "handler", !.attempt = 0, !.opErr = bodyErr,
               !.exc = IF tdFails THEN TeardownErr ELSE e,
               !.raisedBy = IF tdFails THEN "teardown" ELSE op]

\* one failed attempt of an operation under tenacity @retry(stop, retry)
AttemptFailed(wr, op, e, limit, retryOn, tdFails) ==
    IF RetryIfExceptionType(e, retryOn)
    THEN IF StopAfterAttempt(wr.attempt, limit)
         THEN Raised(wr, op, RetryExhausted(e), e, tdFails)
         ELSE [wr EXCEPT !.attempt = @ + 1, !.opErr = e]
    ELSE Raised(wr, op, e, e, tdFails)

\* the faults an attempt costs: its own failure, and a failing teardown
Cost(wr2, tdFails) == 1 + (IF tdFails /\ wr2.pc = "handler" THEN 1 ELSE 0)

\* the temporary directory after a step inside the with-block that left the
\* worker as wr2: torn down when an exception left the block
DirAfter(dir, wr2, tdFails) ==
    IF wr2.pc = "handler" THEN Teardown(dir, tdFails) ELSE dir

\* dict.get(key), None when the key is absent
Get(metadata, key) == IF key \in DOMAIN metadata THEN metadata[key] ELSE "none"

\* str(e): the message, of which the model keeps the keywords
Str(e) == e.words

\* 'Unknown error', which holds none of the keywords
UnknownError == {}

\* _process_job: the metadata of the three status updates (the timestamps,
\* error_trace and frames_analyzed are left out)
ProcessingMetadata(w) == [worker_id |-> w]
CompletedMetadata_nourl(result_urls, analysis_result) ==
    [result_json_url |-> "none", result_pdf_url |-> "none", processing_time |-> "none"]
CompletedMetadata(result_urls, analysis_result) ==
    [result_json_url |-> IF "json" \in result_urls THEN "json_url" ELSE "none",
     result_pdf_url |-> IF "pdf" \in result_urls THEN "pdf_url" ELSE "none",
     processing_time |-> IF "processing_time" \in analysis_result THEN "seconds"
                         ELSE "none"]
FailedMetadata(e, error_category) ==
    [error |-> Str(e), error_category |-> error_category]

\* _send_webhook_notification: the payload (frames_analyzed and timestamp left out)
WebhookPayload(job_id, status, metadata) ==
    LET base == [analysis_id |-> job_id, status |-> status] IN
    IF status = "completed"
    THEN base @@ [result |-> [json_url |-> Get(metadata, "result_json_url"),
                              pdf_url |-> Get(metadata, "result_pdf_url"),
                              processing_time |-> Get(metadata, "processing_time")]]
    ELSE IF status = "failed"
    THEN base @@ [error |-> IF "error" \in DOMAIN metadata THEN metadata["error"]
                            ELSE UnknownError]
    ELSE base

\* a delivery may fail only if it is made and the environment still may
HookAllowed(sent, h) == h = "200" \/ (sent /\ hookFaults > 0)
HookCost(sent, h) == IF sent /\ h # "200" THEN 1 ELSE 0

\* _update_job_status: the row update (applied unless the call failed before
\* reaching the backlog), then the webhook, whose failures are swallowed
UpdateJobStatus(j, st, metadata, outcome) ==
    /\ jobs' = IF outcome \in {"ok", "lost"}
               THEN [jobs EXCEPT ![j] = [status |-> st] @@ metadata @@ @]
               ELSE jobs
    /\ recorded' = IF outcome \in {"ok", "lost"}
                   THEN [recorded EXCEPT ![j] = Append(@, st)]
                   ELSE recorded
    /\ webhooks' = IF outcome = "ok" /\ webhook_url
                   THEN [webhooks EXCEPT ![j] = Append(@, st)]
                   ELSE webhooks
    /\ payloads' = IF outcome = "ok" /\ webhook_url
                   THEN [payloads EXCEPT ![j] = Append(@, WebhookPayload(j, st, metadata))]
                   ELSE payloads

UpdateOutcomes == {"ok", "error", "lost"}

\* _update_job_status raises: the update failed, or the webhook did not swallow
UpdateRaises(outcome, h) ==
    outcome # "ok" \/ (outcome = "ok" /\ webhook_url /\ HookRaises(h))

\* the exception _update_job_status raises, and where it came from
UpdateExc(outcome) == IF outcome # "ok" THEN UpdateErr ELSE HookErr
UpdateSite(outcome) == IF outcome # "ok" THEN "update" ELSE "webhook"

\* run: while self.running: job = await self._get_next_job()
GetNextJob(w) ==
    /\ worker[w].pc = "loop"
    /\ worker[w].running
    /\ \/ \E j \in Claimable(jobs) :
            /\ jobs' = claim_next_job(jobs, w, j)
            /\ claimedBy' = [claimedBy EXCEPT ![j] = @ \cup {w}]
            /\ worker' = [worker EXCEPT ![w].pc = "start", ![w].job = j,
                              ![w].claimResult = "claimed",
                              ![w].sawPending = TRUE]
       \/ /\ Claimable(jobs) = {}
          /\ worker' = [worker EXCEPT ![w].pc = "sleep", ![w].claimResult = "empty",
                              ![w].sawPending = FALSE]
          /\ UNCHANGED <<jobs, claimedBy>>
       \/ \* the rpc raises: except Exception: return None
          /\ worker' = [worker EXCEPT ![w].pc = "sleep", ![w].claimResult = "error",
                              ![w].sawPending = Claimable(jobs) # {}]
          /\ UNCHANGED <<jobs, claimedBy>>
    /\ UNCHANGED <<recorded, webhooks, payloads, alerts, webhook_url, jobFaults, analysisRuns,
                   tempdir, undelivered, hookFaults, bucket, pipeVars>>

\* run: await asyncio.sleep(POLL_INTERVAL)
Sleep(w) ==
    /\ worker[w].pc = "sleep"
    /\ worker' = [worker EXCEPT ![w].pc = "loop", ![w].claimResult = "none",
                                ![w].sawPending = FALSE, ![w].escaped = "none"]
    /\ UNCHANGED <<jobs, claimedBy, recorded, webhooks, payloads, alerts, webhook_url, jobFaults,
                   analysisRuns, tempdir, undelivered, hookFaults, bucket, pipeVars>>

\* stop (the signal handler), at any point of run; stoppedWith notes the job the
\* worker had in hand
Stop(w) ==
    /\ worker[w].running
    /\ worker[w].pc # "exited"
    /\ worker' = [worker EXCEPT ![w].running = FALSE,
                                ![w].stoppedWith = worker[w].job]
    /\ UNCHANGED <<jobs, claimedBy, recorded, webhooks, payloads, alerts, webhook_url, jobFaults,
                   analysisRuns, tempdir, undelivered, hookFaults, bucket, pipeVars>>

\* run: the while condition is false
LoopExit(w) ==
    /\ worker[w].pc = "loop"
    /\ ~worker[w].running
    /\ worker' = [worker EXCEPT ![w].pc = "exited"]
    /\ UNCHANGED <<jobs, claimedBy, recorded, webhooks, payloads, alerts, webhook_url, jobFaults,
                   analysisRuns, tempdir, undelivered, hookFaults, bucket, pipeVars>>

\* _process_job: current_job_id = job_id; _update_job_status(job_id, 'processing');
\* with tempfile.TemporaryDirectory() as temp_dir
StartProcessing(w) ==
    /\ worker[w].pc = "start"
    /\ \E o \in UpdateOutcomes, h \in HookResults :
        LET wr == [worker[w] EXCEPT !.current_job_id = worker[w].job,
                                    !.claimResult = "none", !.sawPending = FALSE]
            j == worker[w].job
            sent == o = "ok" /\ webhook_url
        IN  /\ o # "ok" => jobFaults > 0
            /\ HookAllowed(sent, h)
            /\ jobFaults' = IF o = "ok" THEN jobFaults ELSE jobFaults - 1
            /\ hookFaults' = hookFaults - HookCost(sent, h)
            /\ UpdateJobStatus(j, "processing", ProcessingMetadata(w), o)
            /\ undelivered' = IF sent /\ h # "200"
                              THEN [undelivered EXCEPT ![j] = @ \cup {"processing"}]
                              ELSE undelivered
            /\ worker' = [worker EXCEPT ![w] =
                   IF ~UpdateRaises(o, h)
                   THEN [wr EXCEPT !.pc = "download", !.attempt = 1]
                   ELSE [wr EXCEPT !.pc = "handler", !.exc = UpdateExc(o),
                                   !.raisedBy = UpdateSite(o)]]
            /\ tempdir' = IF ~UpdateRaises(o, h)
                          THEN [tempdir EXCEPT ![j] = NewDir]
                          ELSE tempdir
    /\ UNCHANGED <<claimedBy, alerts, webhook_url, analysisRuns, bucket, pipeVars>>

\* _download_video: one attempt (3 attempts on ConnectionError, TimeoutError)
DownloadVideo(w) ==
    /\ worker[w].pc = "download"
    /\ LET j == worker[w].job IN
       \/ /\ worker' = [worker EXCEPT ![w].pc = "prompt", ![w].attempt = 0,
                                      ![w].opErr = NoExc]
          /\ tempdir' = [tempdir EXCEPT ![j].files = @ \cup {"video"}]
          /\ UNCHANGED jobFaults
       \/ \E e \in DownloadErrs, td \in BOOLEAN :
            LET wr2 == AttemptFailed(worker[w], "download", e, DownloadAttempts,
                                     DownloadRetryOn, td)
            IN  /\ jobFaults >= Cost(wr2, td)
                /\ jobFaults' = jobFaults - Cost(wr2, td)
                /\ worker' = [worker EXCEPT ![w] = wr2]
                /\ tempdir' = [tempdir EXCEPT ![j] = DirAfter(@, wr2, td)]
    /\ UNCHANGED <<jobs, claimedBy, recorded, webhooks, payloads, alerts, webhook_url,
                   analysisRuns, undelivered, hookFaults, bucket, pipeVars>>

\* _download_prompt
DownloadPrompt(w) ==
    /\ worker[w].pc = "prompt"
    /\ LET j == worker[w].job IN
       \/ /\ worker' = [worker EXCEPT ![w].pc = "analysis", ![w].attempt = 1]
          /\ tempdir' = [tempdir EXCEPT ![j].files = @ \cup {"prompt"}]
          /\ UNCHANGED jobFaults
       \/ \E td \in BOOLEAN :
            LET wr2 == Raised(worker[w], "prompt", PromptErr, PromptErr, td)
            IN  /\ jobFaults >= Cost(wr2, td)
                /\ jobFaults' = jobFaults - Cost(wr2, td)
                /\ worker' = [worker EXCEPT ![w] = wr2]
                /\ tempdir' = [tempdir EXCEPT ![j] = DirAfter(@, wr2, td)]
    /\ UNCHANGED <<jobs, claimedBy, recorded, webhooks, payloads, alerts, webhook_url,
                   analysisRuns, undelivered, hookFaults, bucket, pipeVars>>

\* _run_analysis: asyncio.create_subprocess_exec of the analysis script, which
\* cuts its slices next to the downloaded video
StartSubprocess(w) ==
    /\ worker[w].pc = "analysis"
    /\ LET j == worker[w].job IN
        /\ analysisRuns' = [analysisRuns EXCEPT ![j] = Append(@, "running")]
        /\ tempdir' = [tempdir EXCEPT ![j].files = @ \cup {"slices"}]
    /\ worker' = [worker EXCEPT ![w].pc = "communicate"]
    /\ UNCHANGED <<jobs, claimedBy, recorded, webhooks, payloads, alerts, webhook_url, jobFaults,
                   undelivered, hookFaults, bucket, pipeVars>>

\* _run_analysis: the end of one run of the subprocess (2 attempts on
\* RuntimeError, asyncio.TimeoutError): it exits by itself, or the hour passes
\* and it is killed and waited for
RunAnalysis(w) ==
    /\ worker[w].pc = "communicate"
    /\ LET j == worker[w].job
           n == Len(analysisRuns[j])
       IN
       \/ /\ worker' = [worker EXCEPT ![w].pc = "upload", ![w].attempt = 1,
                                      ![w].opErr = NoExc,
                                      ![w].analysis_result = {"processing_time"}]
          /\ analysisRuns' = [analysisRuns EXCEPT ![j][n] = "ok"]
          /\ tempdir' = [tempdir EXCEPT ![j].files = @ \cup {"output"}]
          /\ UNCHANGED jobFaults
       \/ \E r \in AnalysisFailures, td \in BOOLEAN :
            LET wr2 == AttemptFailed([worker[w] EXCEPT !.pc = "analysis"],
                                     "analysis", AnalysisError(r), AnalysisAttempts,
                                     AnalysisRetryOn, td)
            IN  /\ jobFaults >= Cost(wr2, td)
                /\ jobFaults' = jobFaults - Cost(wr2, td)
                /\ worker' = [worker EXCEPT ![w] = wr2]
                /\ analysisRuns' = [analysisRuns EXCEPT ![j][n] = r]
                /\ tempdir' = [tempdir EXCEPT ![j] = DirAfter(@, wr2, td)]
    /\ UNCHANGED <<jobs, claimedBy, recorded, webhooks, payloads, alerts, webhook_url,
                   undelivered, hookFaults, bucket, pipeVars>>

\* _upload_results: one attempt (3 attempts on ConnectionError, TimeoutError,
\* IOError): the JSON result is read, validated and uploaded, then the PDF
\* report is generated, read and uploaded
UploadResults(w) ==
    /\ worker[w].pc = "upload"
    /\ LET j == worker[w].job IN
       \/ \E e \in ResultErrs, td \in BOOLEAN :
            LET wr2 == AttemptFailed(worker[w], "upload", e, ResultAttempts,
                                     ResultRetryOn, td)
            IN  /\ jobFaults >= Cost(wr2, td)
                /\ jobFaults' = jobFaults - Cost(wr2, td)
                /\ worker' = [worker EXCEPT ![w] = wr2]
                /\ tempdir' = [tempdir EXCEPT ![j] = DirAfter(@, wr2, td)]
                /\ UNCHANGED bucket
       \/ \E p \in PdfOutcomes, td \in BOOLEAN :
            LET e == PdfError(p)
                returns == e = NoExc \/ PdfSwallowed(e)
                wr2 == IF returns
                       THEN [worker[w] EXCEPT !.pc = "complete", !.attempt = 0,
                                              !.opErr = NoExc,
                                              !.result_urls = ResultUrls(p)]
                       ELSE AttemptFailed(worker[w], "upload", e, ResultAttempts,
                                          ResultRetryOn, td)
                cost == (IF p = "ok" THEN 0 ELSE 1)
                        + (IF td /\ wr2.pc = "handler" THEN 1 ELSE 0)
            IN  /\ returns => ~td
                /\ jobFaults >= cost
                /\ jobFaults' = jobFaults - cost
                /\ worker' = [worker EXCEPT ![w] = wr2]
                /\ tempdir' = [tempdir EXCEPT ![j] = DirAfter(@, wr2, td)]
                /\ bucket' = [bucket EXCEPT ![j] = @ \cup Stored(p)]
    /\ UNCHANGED <<jobs, claimedBy, recorded, webhooks, payloads, alerts, webhook_url,
                   analysisRuns, undelivered, hookFaults, pipeVars>>

\* _process_job: _update_job_status(job_id, 'completed', ...), logging, and the
\* end of the with-block, which tears the temporary directory down
MarkCompleted(w) ==
    /\ worker[w].pc = "complete"
    /\ \E o \in UpdateOutcomes, h \in HookResults, td \in BOOLEAN :
        LET cost == (IF o = "ok" THEN 0 ELSE 1) + (IF td THEN 1 ELSE 0)
            j == worker[w].job
            sent == o = "ok" /\ webhook_url
        IN  /\ jobFaults >= cost
            /\ HookAllowed(sent, h)
            /\ jobFaults' = jobFaults - cost
            /\ hookFaults' = hookFaults - HookCost(sent, h)
            /\ UpdateJobStatus(j, "completed",
                               CompletedMetadata(worker[w].result_urls,
                                                 worker[w].analysis_result), o)
            /\ undelivered' = IF sent /\ h # "200"
                              THEN [undelivered EXCEPT ![j] = @ \cup {"completed"}]
                              ELSE undelivered
            /\ worker' = [worker EXCEPT ![w] =
                   IF ~UpdateRaises(o, h) /\ ~td THEN Finally(@)
                   ELSE IF ~UpdateRaises(o, h)
                        THEN Raised(@, "teardown", TeardownErr, NoExc, TRUE)
                   ELSE Raised(@, UpdateSite(o), UpdateExc(o), NoExc, td)]
            /\ tempdir' = [tempdir EXCEPT ![j] = Teardown(@, td)]
    /\ UNCHANGED <<claimedBy, alerts, webhook_url, analysisRuns, bucket, pipeVars>>

\* _process_job: except Exception: categorize, _update_job_status(job_id, 'failed'),
\* the critical alert; an exception of the update escapes to run, which sleeps
HandleError(w) ==
    /\ worker[w].pc = "handler"
    /\ \E o \in UpdateOutcomes, h \in HookResults, a \in HookResults :
        LET j == worker[w].job
            error_category == categorize_error(worker[w].exc)
            sent == o = "ok" /\ webhook_url
            alerted == ~UpdateRaises(o, h) /\ error_category \in CriticalCategories
            posted == alerted /\ webhook_url
            escapes == UpdateRaises(o, h) \/ (posted /\ HookRaises(a))
        IN  /\ o # "ok" => jobFaults > 0
            /\ HookAllowed(sent, h)
            /\ HookAllowed(posted, a)
            /\ hookFaults >= HookCost(sent, h) + HookCost(posted, a)
            /\ jobFaults' = IF o = "ok" THEN jobFaults ELSE jobFaults - 1
            /\ hookFaults' = hookFaults - HookCost(sent, h) - HookCost(posted, a)
            /\ UpdateJobStatus(j, "failed",
                               FailedMetadata(worker[w].exc, error_category), o)
            /\ alerts' = IF alerted THEN [alerts EXCEPT ![j] = @ + 1] ELSE alerts
            /\ undelivered' = [undelivered EXCEPT ![j] =
                   @ \cup (IF sent /\ h # "200" THEN {"failed"} ELSE {})
                     \cup (IF posted /\ a # "200" THEN {"alert"} ELSE {})]
            /\ worker' = [worker EXCEPT ![w] =
                   IF ~escapes THEN Finally(@)
                   ELSE Escaped(@, IF UpdateRaises(o, h) THEN UpdateSite(o)
                                   ELSE "alert")]
    /\ UNCHANGED <<claimedBy, webhook_url, analysisRuns, tempdir, bucket, pipeVars>>

WorkerIdle ==
    /\ jobs = <<>>
    /\ worker = <<>>
    /\ claimedBy = <<>>
    /\ recorded = <<>>
    /\ webhooks = <<>>
    /\ alerts = <<>>
    /\ webhook_url = FALSE
    /\ jobFaults = 0
    /\ analysisRuns = <<>>
    /\ tempdir = <<>>
    /\ undelivered = <<>>
    /\ hookFaults = 0
    /\ bucket = <<>>
    /\ payloads = <<>>

PipeIdle ==
    /\ disk = <<>>
    /\ uploaded = <<>>
    /\ segments = <<>>
    /\ task = <<>>
    /\ permits = MaxConcurrent
    /\ results = <<>>
    /\ runState = "init"
    /\ written = <<>>

\* cli on one video of 0..MaxSegments segments
RunInit ==
    /\ segment_len = 1
    /\ duration_s \in 0..MaxSegments
    /\ faultsLeft = MaxFaults
    /\ max_wait = MaxPolls
    /\ slice_mb = [i \in 1..MaxSegments |-> CompressThreshold]
    /\ PipeIdle
    /\ WorkerIdle

RunNext ==
    \/ RunSplit
    \/ \E s \in SegIds : Acquire(s)
    \/ \E s \in SegIds : Upload(s)
    \/ \E s \in SegIds : Poll(s)
    \/ \E s \in SegIds : Generate(s)
    \/ \E s \in SegIds : Delete(s)
    \/ \E s \in SegIds : Finish(s)
    \/ RunReturn
    \/ CliWrite

SpecRun == RunInit /\ [][RunNext]_vars

\* cli on one video of 0..MaxSegments segments whose uploads and generations
\* succeed at once and whose handles may stay inactive until the wait is over;
\* the event loop runs every task that can take a step
GateInit ==
    /\ segment_len = 1
    /\ duration_s \in 0..MaxSegments
    /\ faultsLeft = 0
    /\ max_wait = MaxPolls
    /\ slice_mb = [i \in 1..MaxSegments |-> CompressThreshold]
    /\ PipeIdle
    /\ WorkerIdle

SpecGate == GateInit /\ [][RunNext]_vars /\ WF_vars(RunNext)

\* one segment, with every failure the remote service can produce, slices at
\* and above the compression threshold
SegInit ==
    /\ segment_len = 1
    /\ duration_s = 1
    /\ faultsLeft = UploadAttempts + GenerateAttempts
    /\ max_wait \in 1..MaxSegPolls
    /\ slice_mb \in [1..1 -> {CompressThreshold, CompressThreshold + 1}]
    /\ PipeIdle
    /\ WorkerIdle

SpecSeg == SegInit /\ [][RunNext]_vars

\* split alone, over all durations and segment lengths of the bounds
SplitInit ==
    /\ duration_s \in 0..MaxDuration
    /\ segment_len \in 1..MaxSegLen
    /\ faultsLeft = 0
    /\ max_wait = MaxPolls
    /\ slice_mb = [i \in 1..MaxDuration |-> CompressThreshold]
    /\ PipeIdle
    /\ WorkerIdle

SplitNext == RunSplit

SpecSplit == SplitInit /\ [][SplitNext]_vars

\* the runners on one backlog of pending jobs, WEBHOOK_URL configured
Init ==
    /\ jobs = [j \in 1..NumContended |-> NewJob]
    /\ worker = [w \in Workers |-> NewWorker]
    /\ claimedBy = [j \in 1..NumContended |-> {}]
    /\ recorded = [j \in 1..NumContended |-> <<>>]
    /\ webhooks = [j \in 1..NumContended |-> <<>>]
    /\ alerts = [j \in 1..NumContended |-> 0]
    /\ webhook_url = TRUE
    /\ jobFaults = MaxJobFaults
    /\ analysisRuns = [j \in 1..NumContended |-> <<>>]
    /\ tempdir = [j \in 1..NumContended |-> NoDir]
    /\ undelivered = [j \in 1..NumContended |-> {}]
    /\ bucket = [j \in 1..NumContended |-> {}]
    /\ payloads = [j \in 1..NumContended |-> <<>>]
    /\ hookFaults = 0
    /\ duration_s = 0
    /\ segment_len = 1
    /\ faultsLeft = 0
    /\ max_wait = MaxPolls
    /\ slice_mb = <<>>
    /\ PipeIdle

Next ==
    \/ \E w \in DOMAIN worker : GetNextJob(w)
    \/ \E w \in DOMAIN worker : Sleep(w)
    \/ \E w \in DOMAIN worker : StartProcessing(w)
    \/ \E w \in DOMAIN worker : DownloadVideo(w)
    \/ \E w \in DOMAIN worker : DownloadPrompt(w)
    \/ \E w \in DOMAIN worker : StartSubprocess(w)
    \/ \E w \in DOMAIN worker : RunAnalysis(w)
    \/ \E w \in DOMAIN worker : UploadResults(w)
    \/ \E w \in DOMAIN worker : MarkCompleted(w)
    \/ \E w \in DOMAIN worker : HandleError(w)

Spec == Init /\ [][Next]_vars

\* one runner alone on the backlog, with more failures
JobInit ==
    /\ jobs = [j \in Jobs |-> NewJob]
    /\ worker = [w \in {1} |-> NewWorker]
    /\ claimedBy = [j \in Jobs |-> {}]
    /\ recorded = [j \in Jobs |-> <<>>]
    /\ webhooks = [j \in Jobs |-> <<>>]
    /\ alerts = [j \in Jobs |-> 0]
    /\ webhook_url = TRUE
    /\ jobFaults = MaxSoloFaults
    /\ analysisRuns = [j \in Jobs |-> <<>>]
    /\ tempdir = [j \in Jobs |-> NoDir]
    /\ undelivered = [j \in Jobs |-> {}]
    /\ bucket = [j \in Jobs |-> {}]
    /\ payloads = [j \in Jobs |-> <<>>]
    /\ hookFaults = 0
    /\ duration_s = 0
    /\ segment_len = 1
    /\ faultsLeft = 0
    /\ max_wait = MaxPolls
    /\ slice_mb = <<>>
    /\ PipeIdle

SpecJob == JobInit /\ [][Next]_vars

\* one runner alone on the backlog, with webhook and alert deliveries that fail
HookInit ==
    /\ jobs = [j \in Jobs |-> NewJob]
    /\ worker = [w \in {1} |-> NewWorker]
    /\ claimedBy = [j \in Jobs |-> {}]
    /\ recorded = [j \in Jobs |-> <<>>]
    /\ webhooks = [j \in Jobs |-> <<>>]
    /\ alerts = [j \in Jobs |-> 0]
    /\ webhook_url = TRUE
    /\ jobFaults = MaxJobFaults
    /\ analysisRuns = [j \in Jobs |-> <<>>]
    /\ tempdir = [j \in Jobs |-> NoDir]
    /\ undelivered = [j \in Jobs |-> {}]
    /\ bucket = [j \in Jobs |-> {}]
    /\ payloads = [j \in Jobs |-> <<>>]
    /\ hookFaults = MaxHookFaults
    /\ duration_s = 0
    /\ segment_len = 1
    /\ faultsLeft = 0
    /\ max_wait = MaxPolls
    /\ slice_mb = <<>>
    /\ PipeIdle

SpecHook == HookInit /\ [][Next]_vars

\* one runner alone on a short backlog, with enough failures to exhaust the
\* attempts of a download or of a result upload
UpInit ==
    /\ jobs = [j \in 1..NumContended |-> NewJob]
    /\ worker = [w \in {1} |-> NewWorker]
    /\ claimedBy = [j \in 1..NumContended |-> {}]
    /\ recorded = [j \in 1..NumContended |-> <<>>]
    /\ webhooks = [j \in 1..NumContended |-> <<>>]
    /\ alerts = [j \in 1..NumContended |-> 0]
    /\ webhook_url = TRUE
    /\ jobFaults = MaxUpFaults
    /\ analysisRuns = [j \in 1..NumContended |-> <<>>]
    /\ tempdir = [j \in 1..NumContended |-> NoDir]
    /\ undelivered = [j \in 1..NumContended |-> {}]
    /\ bucket = [j \in 1..NumContended |-> {}]
    /\ payloads = [j \in 1..NumContended |-> <<>>]
    /\ hookFaults = 0
    /\ duration_s = 0
    /\ segment_len = 1
    /\ faultsLeft = 0
    /\ max_wait = MaxPolls
    /\ slice_mb = <<>>
    /\ PipeIdle

SpecUp == UpInit /\ [][Next]_vars

\* _categorize_error on every message of up to MaxKeywords keywords: the
\* 'processing' update of the first job raised an error with that message
\* (the state StartProcessing leaves when the update fails), the other jobs
\* are pending
CatInit ==
    /\ \E W \in {K \in SUBSET Keywords : Cardinality(K) <= MaxKeywords} :
         worker = [w \in {1} |->
                      [NewWorker EXCEPT !.pc = "handler", !.job = 1, !.current_job_id = 1,
                                        !.exc = [kind |-> "APIError", words |-> W],
                                        !.raisedBy = "update"]]
    /\ jobs = [j \in 1..(NumContended + 1) |->
                  IF j = 1 THEN claim_next_job([i \in {1} |-> NewJob], 1, 1)[1]
                  ELSE NewJob]
    /\ claimedBy = [j \in 1..(NumContended + 1) |-> IF j = 1 THEN {1} ELSE {}]
    /\ recorded = [j \in 1..(NumContended + 1) |-> <<>>]
    /\ webhooks = [j \in 1..(NumContended + 1) |-> <<>>]
    /\ alerts = [j \in 1..(NumContended + 1) |-> 0]
    /\ webhook_url = TRUE
    /\ jobFaults = 0
    /\ analysisRuns = [j \in 1..(NumContended + 1) |-> <<>>]
    /\ tempdir = [j \in 1..(NumContended + 1) |-> NoDir]
    /\ undelivered = [j \in 1..(NumContended + 1) |-> {}]
    /\ bucket = [j \in 1..(NumContended + 1) |-> {}]
    /\ payloads = [j \in 1..(NumContended + 1) |-> <<>>]
    /\ hookFaults = 0
    /\ duration_s = 0
    /\ segment_len = 1
    /\ faultsLeft = 0
    /\ max_wait = MaxPolls
    /\ slice_mb = <<>>
    /\ PipeIdle

SpecCat == CatInit /\ [][Next]_vars

\* the steps of one runner
WorkerStep(w) ==
    \/ GetNextJob(w)
    \/ Sleep(w)
    \/ StartProcessing(w)
    \/ DownloadVideo(w)
    \/ DownloadPrompt(w)
    \/ StartSubprocess(w)
    \/ RunAnalysis(w)
    \/ UploadResults(w)
    \/ MarkCompleted(w)
    \/ HandleError(w)

\* one runner alone on a short backlog
PollInit ==
    /\ jobs = [j \in 1..NumContended |-> NewJob]
    /\ worker = [w \in {1} |-> NewWorker]
    /\ claimedBy = [j \in 1..NumContended |-> {}]
    /\ recorded = [j \in 1..NumContended |-> <<>>]
    /\ webhooks = [j \in 1..NumContended |-> <<>>]
    /\ alerts = [j \in 1..NumContended |-> 0]
    /\ webhook_url = TRUE
    /\ jobFaults = MaxSoloFaults
    /\ analysisRuns = [j \in 1..NumContended |-> <<>>]
    /\ tempdir = [j \in 1..NumContended |-> NoDir]
    /\ undelivered = [j \in 1..NumContended |-> {}]
    /\ bucket = [j \in 1..NumContended |-> {}]
    /\ payloads = [j \in 1..NumContended |-> <<>>]
    /\ hookFaults = 0
    /\ duration_s = 0
    /\ segment_len = 1
    /\ faultsLeft = 0
    /\ max_wait = MaxPolls
    /\ slice_mb = <<>>
    /\ PipeIdle

\* the runner is one asyncio task whose awaits all return or raise (the sleep
\* ends, the subprocess is bounded by its timeout, the posts by theirs): a step
\* that stays possible is eventually taken
SpecPoll == PollInit /\ [][Next]_vars /\ WF_vars(WorkerStep(1))

\* one runner alone on the backlog, with the shutdown signal
StopNext ==
    \/ Next
    \/ \E w \in DOMAIN worker : Stop(w)
    \/ \E w \in DOMAIN worker : LoopExit(w)

SpecStop == JobInit /\ [][StopNext]_vars

\* ================================================================ claims

Terminal == {"completed", "failed"}

\* C1: a pending job is handed to at most one worker: two concurrent claim
\* calls against one pending job never both return it, and exactly one does
\* (the call the backlog executes first returns a job, the other none).
C1_AtMostOneClaim ==
    /\ \A j \in DOMAIN jobs : Cardinality(claimedBy[j]) <= 1
    /\ \A w \in DOMAIN worker :
        /\ worker[w].job # NoJob =>
               /\ claimedBy[worker[w].job] = {w}
               /\ jobs[worker[w].job].worker_id = w
        /\ (worker[w].sawPending /\ worker[w].claimResult # "error") =>
               worker[w].claimResult = "claimed"
        /\ worker[w].claimResult = "empty" => Claimable(jobs) = {}

\* two workers polled: one holds the job, the other was told there is none
C1_Witness ==
    \E w1, w2 \in DOMAIN worker, j \in DOMAIN jobs :
        /\ w1 # w2
        /\ worker[w1].job = j
        /\ worker[w1].pc = "start"
        /\ claimedBy[j] = {w1}
        /\ worker[w2].claimResult = "empty"

\* C2: completed and failed are terminal: once completed or failed has been
\* written for a claimed job, no later status write follows during that claim;
\* a job recorded completed is never afterwards recorded failed.
C2_TerminalIsFinal ==
    \A j \in DOMAIN jobs :
        \A i \in 1..(Len(recorded[j]) - 1) : recorded[j][i] \notin Terminal

\* C3: every job a worker claimed has been recorded completed or failed by the
\* time the worker has left it and polls again, whatever failed in between.
C3_ClaimedJobReachesTerminal ==
    \A j \in DOMAIN jobs :
        (claimedBy[j] # {} /\ \A w \in DOMAIN worker : worker[w].job # j)
            => jobs[j].status \in Terminal

\* C10: the error of a retried operation of the worker (download, analysis,
\* result upload) that reaches the job's except handler is the operation's own
\* error, unchanged in kind and message, also after the attempts are exhausted.
C10_ErrorReachesHandlerUnchanged ==
    \A w \in DOMAIN worker :
        (worker[w].pc = "handler"
            /\ worker[w].raisedBy \in {"download", "analysis", "upload"})
        => worker[w].exc = worker[w].opErr


CeilDiv(D, L) == (D + L - 1) \div L

\* between the start of the upload and the end of the analysis
InFlight == {s \in SegIds : task[s].pc \in {"upload", "poll", "generate", "delete"}}

\* C4: in run, with the cap of 3, the number of segments between the start of
\* their upload and the end of their analysis never exceeds 3, for every
\* segment count and every interleaving of completions and failures.
C4_InFlightAtMostCap == Cardinality(InFlight) <= MaxConcurrent

\* more segments than the cap: the cap is reached while a segment waits at the gate
C4_Witness ==
    /\ Len(segments) > MaxConcurrent
    /\ Cardinality(InFlight) = MaxConcurrent
    /\ permits = 0
    /\ \E s \in SegIds : task[s].pc = "queued"

\* C5: whatever the order in which segments complete, the result list written
\* to the output JSON file is sorted by segment index ascending.
C5_WrittenSorted ==
    runState = "written" =>
        \A i, j \in 1..Len(written) : i < j => written[i] < written[j]

\* C6: for every segment whose upload succeeded, a delete of its handle has
\* been attempted when analyse_segment returns or raises, on every path.
C6_DeleteBeforeReturn ==
    \A s \in SegIds :
        (task[s].pc = "return" /\ task[s].handle # "none") => task[s].delCalls >= 1

\* C7: for every segment whose handle became active, the delete-handle call is
\* issued exactly once, after the last generate attempt, whether generation
\* succeeded or failed on all 3 attempts; never between retries, never twice.
C7_DeleteExactlyOnce ==
    \A s \in SegIds :
        /\ task[s].delCalls <= 1
        /\ task[s].pc = "generate" => task[s].delCalls = 0
        /\ task[s].pc = "delete" =>
               /\ task[s].delCalls = 0
               /\ \/ task[s].outcome = OkOutcome
                  \/ task[s].genFails = GenerateAttempts
        /\ (task[s].pc = "return" /\ task[s].genCalls > 0) => task[s].delCalls = 1

\* generation failed on all 3 attempts and the handle was deleted once
C7_Witness ==
    \E s \in SegIds :
        /\ task[s].pc = "return"
        /\ task[s].genFails = GenerateAttempts
        /\ task[s].delCalls = 1

\* C8: for every duration D >= 0 and segment length L > 0, split produces
\* ceil(D/L) segments with indices 1..ceil(D/L), segment i covering
\* [(i-1)*L, min(i*L, D)): contiguous, non-overlapping, covering exactly [0, D),
\* each with 0 <= start < end <= D, the last of length <= L.
C8_SplitPartition ==
    runState = "running" =>
        LET D == duration_s
            L == segment_len
            n == Len(segments)
        IN  /\ n = CeilDiv(D, L)
            /\ \A i \in 1..n :
                /\ segments[i].idx = i
                /\ segments[i].start_s = (i - 1) * L
                /\ segments[i].end_s = Min(i * L, D)
                /\ 0 <= segments[i].start_s
                /\ segments[i].start_s < segments[i].end_s
                /\ segments[i].end_s <= D
                /\ segments[i].end_s - segments[i].start_s <= L
                /\ i < n => segments[i + 1].start_s = segments[i].end_s
            /\ n > 0 => /\ segments[1].start_s = 0
                        /\ segments[n].end_s = D

\* D = 25, L = 10 gives [0,10), [10,20), [20,25)
C8_Witness ==
    /\ duration_s = 25
    /\ segment_len = 10
    /\ segments = << [idx |-> 1, start_s |-> 0, end_s |-> 10],
                     [idx |-> 2, start_s |-> 10, end_s |-> 20],
                     [idx |-> 3, start_s |-> 20, end_s |-> 25] >>

\* C9: remote upload is attempted until its first success or 5 failures, and
\* remote generate until its first success or 3 failures: k failures and then
\* a success make k+1 attempts and a success; an operation that always fails
\* is attempted exactly its limit and surfaces the last failure unchanged.
C9_RetryUntilSuccessOrLimit ==
    \A s \in SegIds :
        /\ task[s].uplCalls <= UploadAttempts
        /\ task[s].genCalls <= GenerateAttempts
        /\ task[s].pc = "upload" =>
               /\ task[s].uplFails = task[s].uplCalls
               /\ task[s].uplCalls < UploadAttempts
        /\ task[s].handle # "none" =>
               /\ task[s].uplCalls = task[s].uplFails + 1
               /\ task[s].outcome.op # "upload"
        /\ task[s].outcome.op = "upload" =>
               /\ task[s].handle = "none"
               /\ task[s].uplFails = UploadAttempts
               /\ task[s].uplCalls = UploadAttempts
               /\ task[s].outcome.err \in RemoteErrs
               /\ task[s].outcome.err = task[s].lastErr
        /\ task[s].pc = "generate" =>
               /\ task[s].genFails = task[s].genCalls
               /\ task[s].genCalls < GenerateAttempts
        /\ task[s].outcome = OkOutcome =>
               task[s].genCalls = task[s].genFails + 1
        /\ task[s].outcome.op = "generate" =>
               /\ task[s].genFails = GenerateAttempts
               /\ task[s].genCalls = GenerateAttempts
               /\ task[s].outcome.err \in RemoteErrs
               /\ task[s].outcome.err = task[s].lastErr

\* the upload failed twice and succeeded on its 3rd attempt; the segment succeeded
C9_Witness ==
    \E s \in SegIds :
        /\ task[s].pc = "return"
        /\ task[s].outcome = OkOutcome
        /\ task[s].uplFails = 2
        /\ task[s].uplCalls = 3

\* C18: in wait_for_file_active, once a status query reports the handle as
\* FAILED no further status query is made and the segment fails at once, before
\* the poll bound; while the handle is still processing, polling goes on until
\* ACTIVE or until the bound is exceeded, and the bound is never overrun.
C18_PollStopsOnFailed ==
    \A s \in SegIds :
        /\ task[s].failedSeen =>
               /\ task[s].pc = "return"
               /\ task[s].outcome = [op |-> "poll", err |-> "File upload failed"]
               /\ task[s].genCalls = 0
        /\ task[s].polls <= max_wait
        /\ task[s].outcome.err = "did not become active" =>
               /\ task[s].polls = max_wait
               /\ ~task[s].failedSeen

\* the handle was still processing at the first query and FAILED at the second,
\* with queries left before the bound
C18_Witness ==
    \E s \in SegIds :
        /\ task[s].failedSeen
        /\ task[s].pc = "return"
        /\ task[s].polls >= 1
        /\ task[s].polls < max_wait

\* C19: for a slice larger than 100 MB (compression enabled) the file handed to
\* the upload is a re-encoded slice of the same range, not the stream-copied
\* one; for a slice at or below 100 MB the stream-copied slice is uploaded.
C19_LargeSliceUploadedCompressed ==
    \A s \in DOMAIN uploaded :
        uploaded[s] # "none" =>
            uploaded[s] = IF slice_mb[s] > CompressThreshold THEN "x264" ELSE "copy"

\* the job was claimed and no worker holds it any more
Left(j) == claimedBy[j] # {} /\ \A w \in DOMAIN worker : worker[w].job # j

Range(f) == {f[i] : i \in DOMAIN f}

\* C11: if a run of the analysis subprocess exceeds the wall-clock ceiling, the
\* worker kills it and waits for its exit, and the job is recorded failed with
\* category timeout; no job is recorded failed while its subprocess still runs.
C11_TimeoutFailsJob ==
    \A j \in DOMAIN jobs :
        /\ jobs[j].status = "failed" => "running" \notin Range(analysisRuns[j])
        /\ (Left(j) /\ "timeout" \in Range(analysisRuns[j])) =>
               /\ jobs[j].status = "failed"
               /\ jobs[j].error_category = "timeout"

\* C12: within one claim the analysis subprocess is started at most 2 times, and
\* a second time only after the first run failed with a quota/rate-limit or
\* remote-API error; never after a validation failure or a wall-clock timeout.
C12_SecondRunOnlyAfterApiError ==
    \A j \in DOMAIN jobs :
        /\ Len(analysisRuns[j]) <= AnalysisAttempts
        /\ Len(analysisRuns[j]) >= 2 => analysisRuns[j][1] \in {"quota", "gemini"}

\* C13: whenever a job is recorded failed because of an error whose message
\* contains "quota", whichever operation raised it (also the subprocess
\* reporting a quota error on every attempt), the category written is
\* quota_exceeded and a critical alert is emitted besides the failure webhook.
C13_QuotaFailureAlerts ==
    [][\A w \in DOMAIN worker :
          LET j == worker[w].job IN
          (/\ worker[w].pc = "handler"
           /\ worker[w].raisedBy \in {"download", "analysis", "upload"}
           /\ "quota" \in worker[w].opErr.words
           /\ recorded'[j] = Append(recorded[j], "failed"))
          => /\ jobs'[j].error_category = "quota_exceeded"
             /\ alerts'[j] = alerts[j] + 1
             /\ webhooks'[j] = Append(webhooks[j], "failed")]_vars

\* C14: a critical alert is emitted for a job only if the job was recorded
\* failed with category quota_exceeded, api_key_invalid or storage_error: never
\* for a completed job or one failed with another category; at most one per claim.
C14_AlertOnlyForCritical ==
    \A j \in DOMAIN jobs :
        /\ alerts[j] <= 1
        /\ alerts[j] > 0 =>
               /\ jobs[j].status = "failed"
               /\ jobs[j].error_category \in
                      {"quota_exceeded", "api_key_invalid", "storage_error"}

\* one job failed on a storage error and was alerted, another failed on an
\* invalid video URL and was not
C14_Witness ==
    \E j1, j2 \in DOMAIN jobs :
        /\ jobs[j1].status = "failed"
        /\ jobs[j1].error_category = "storage_error"
        /\ alerts[j1] = 1
        /\ jobs[j2].status = "failed"
        /\ jobs[j2].error_category = "video_processing_error"
        /\ alerts[j2] = 0

\* C15: with a webhook URL configured, every status recorded for a job triggers
\* exactly one status webhook with that status and no webhook is sent for a
\* status not recorded; per claim the webhooks are one for processing followed
\* by exactly one for a terminal status.
C15_OneWebhookPerStatus ==
    \A j \in DOMAIN jobs :
        /\ webhooks[j] = recorded[j]
        /\ Left(j) => webhooks[j] \in {<<"processing", "completed">>,
                                        <<"processing", "failed">>}

\* C16: a failed delivery of a status webhook or of the critical alert never
\* reaches the caller: the recorded status stays what was written, no status
\* write is repeated, and a job whose only failures are failed deliveries is
\* recorded processing and then completed.
C16_DeliveryFailureIsSwallowed ==
    /\ \A w \in DOMAIN worker :
          /\ worker[w].raisedBy # "webhook"
          /\ worker[w].escaped \notin {"webhook", "alert"}
    /\ \A j \in DOMAIN jobs :
          /\ (undelivered[j] \ {"alert"}) \subseteq Range(recorded[j])
          /\ "alert" \in undelivered[j] =>
                 /\ jobs[j].status = "failed"
                 /\ alerts[j] = 1
          /\ recorded[j] # <<>> => jobs[j].status = recorded[j][Len(recorded[j])]
          /\ \A i1, i2 \in DOMAIN recorded[j] :
                 recorded[j][i1] = recorded[j][i2] => i1 = i2
          /\ jobFaults = MaxJobFaults =>
                 recorded[j] \in {<<>>, <<"processing">>, <<"processing", "completed">>}
          /\ (jobFaults = MaxJobFaults /\ Left(j)) => jobs[j].status = "completed"

\* the webhooks for processing and for completed both failed; the job is completed
C16_Witness ==
    \E j \in DOMAIN jobs :
        /\ Left(j)
        /\ {"processing", "completed"} \subseteq undelivered[j]
        /\ jobs[j].status = "completed"
        /\ recorded[j] = <<"processing", "completed">>

\* C17: a job is attempted once per claim: it is claimed by one worker, recorded
\* processing at most once, and exactly one terminal status is recorded for it
\* before the worker polls again.
C17_OnceAndOneTerminal ==
    \A j \in DOMAIN jobs :
        /\ Cardinality(claimedBy[j]) <= 1
        /\ Cardinality({i \in DOMAIN recorded[j] : recorded[j][i] = "processing"}) <= 1
        /\ Len(analysisRuns[j]) <= AnalysisAttempts
        /\ Left(j) =>
               Cardinality({i \in DOMAIN recorded[j] : recorded[j][i] \in Terminal}) = 1

C21_RetryOnlyTransient ==
    \A w \in DOMAIN worker :
        LET wr == worker[w]
            transient == IF wr.pc = "download" \/ wr.raisedBy = "download"
                         THEN {"ConnectionError", "TimeoutError"}
                         ELSE {"ConnectionError", "TimeoutError", "OSError"}
        IN  /\ wr.pc \in {"download", "upload"} =>
                /\ wr.attempt \in 1..3
                /\ wr.attempt > 1 => wr.opErr.kind \in transient
            /\ wr.pc = "handler" /\ wr.raisedBy \in {"download", "upload"} =>
                \/ wr.opErr.kind \notin transient /\ wr.exc = wr.opErr
                \/ wr.opErr.kind \in transient /\ wr.exc.kind = "RetryError"

\* the third attempt of a result upload failed on a network error, after a
\* download that needed no retry
C21_Witness ==
    \E w \in DOMAIN worker :
        /\ worker[w].pc = "handler"
        /\ worker[w].raisedBy = "upload"
        /\ worker[w].opErr = UpNetwork
        /\ worker[w].exc.kind = "RetryError"
        /\ jobFaults = MaxUpFaults - ResultAttempts

\* C22: a job is recorded completed only after the analysis subprocess exited
\* successfully with an output JSON and the JSON result was then uploaded: the
\* JSON is stored only after a successful run, completed is recorded only with
\* the JSON stored, never after failed, and the row then carries the URL of the
\* JSON artifact and the processing time.
C22_CompletedAfterAnalysisAndUpload ==
    \A j \in DOMAIN jobs :
        LET runs == analysisRuns[j]
            analysed == runs # <<>> /\ runs[Len(runs)] = "ok"
        IN  /\ "json" \in bucket[j] => analysed
            /\ "completed" \in Range(recorded[j]) =>
                /\ analysed
                /\ "json" \in bucket[j]
                /\ jobs[j].result_json_url = "json_url"
                /\ jobs[j].processing_time = "seconds"
                /\ \A i, k \in DOMAIN recorded[j] :
                       recorded[j][i] = "failed" /\ recorded[j][k] = "completed" => k < i
            /\ \A w \in DOMAIN worker :
                   worker[w].job = j /\ worker[w].pc = "handler"
                   /\ worker[w].raisedBy \in {"download", "prompt", "analysis", "upload"}
                   => "completed" \notin Range(recorded[j])

\* a job completed on the second run of its analysis, with its JSON stored and
\* no PDF report generated
C22_Witness ==
    \E j \in DOMAIN jobs :
        /\ jobs[j].status = "completed"
        /\ Len(analysisRuns[j]) = 2
        /\ bucket[j] = {"json"}
        /\ jobs[j].result_pdf_url = "none"

\* C26: the webhook sent for a failed job carries the error message and the
\* error category recorded for the job, and the one sent for a completed job
\* carries the result URLs and the processing time.
C26_WebhookCarriesStatusPayload ==
    \A j \in DOMAIN payloads :
        \A i \in DOMAIN payloads[j] :
            LET p == payloads[j][i] IN
            /\ p.status = "failed" =>
                /\ "error" \in DOMAIN p
                /\ p.error = jobs[j].error
                /\ "error_category" \in DOMAIN p
            /\ p.status = "completed" =>
                /\ "result" \in DOMAIN p
                /\ p.result.json_url = "json_url"
                /\ p.result.processing_time = "seconds"

\* C27: a completed job records a PDF artifact URL only if the PDF upload
\* succeeded: every artifact URL on a completed job refers to an artifact that
\* is stored in the results bucket.
C27_ArtifactUrlsAreStored ==
    \A j \in DOMAIN jobs :
        "completed" \in Range(recorded[j]) =>
            /\ jobs[j].result_json_url = "json_url" => "json" \in bucket[j]
            /\ jobs[j].result_pdf_url = "pdf_url" => "pdf" \in bucket[j]

\* C23: while a job is not terminal at most one worker holds it, and every
\* write to a job's row (the claim and each status update) is made by the one
\* worker that claimed the job: no worker writes to a job it did not claim or
\* that another worker has claimed since.
C23_SingleWriterWhileClaimed ==
    /\ [](\A j \in DOMAIN jobs :
            /\ Cardinality(claimedBy[j]) <= 1
            /\ Cardinality({w \in DOMAIN worker : worker[w].job = j}) <= 1)
    /\ [][\A j \in DOMAIN jobs :
            jobs'[j] # jobs[j] \/ recorded'[j] # recorded[j] =>
                \E w \in DOMAIN worker :
                    /\ worker'[w] # worker[w]
                    /\ worker[w].job = j \/ worker'[w].job = j
                    /\ claimedBy'[j] = {w}
                    /\ jobs'[j].worker_id = w]_vars

\* one worker has written processing and a terminal status to the job it
\* claimed while another worker polled and found nothing to claim
C23_Witness ==
    \E j \in DOMAIN jobs, w1, w2 \in DOMAIN worker :
        /\ w1 # w2
        /\ claimedBy[j] = {w1}
        /\ Len(recorded[j]) = 2
        /\ worker[w2].claimResult = "empty"

\* C24: when a poll finds no pending job, or the claim call itself errors, the
\* worker records no status and sends no webhook, sleeps one poll interval and
\* polls again; while running is true the worker always eventually polls
\* again, also after a job ended in any outcome and after an exception escaped
\* job processing.
C24_AlwaysPollsAgain ==
    /\ [][\A w \in DOMAIN worker :
            /\ worker[w].pc = "loop" /\ worker'[w].claimResult \in {"empty", "error"} =>
                /\ worker'[w].pc = "sleep"
                /\ jobs' = jobs
                /\ recorded' = recorded
                /\ webhooks' = webhooks
            /\ worker[w].pc = "sleep" /\ worker'[w] # worker[w] =>
                worker'[w].pc = "loop"]_vars
    /\ []<><<GetNextJob(1)>>_vars

\* the failed update of a job raised out of job processing, leaving the job in
\* processing; the worker slept, polled again and found nothing
C24_Witness ==
    \E w \in DOMAIN worker, j \in DOMAIN jobs :
        /\ worker[w].pc = "sleep"
        /\ worker[w].claimResult = "empty"
        /\ claimedBy[j] = {w}
        /\ jobs[j].status = "processing"

\* the keyword groups of the claim, in its order, each with its category
KeywordGroups ==
    << [words |-> {"quota", "rate limit"}, category |-> "quota_exceeded"],
       [words |-> {"api key", "authentication"}, category |-> "api_key_invalid"],
       [words |-> {"storage", "bucket"}, category |-> "storage_error"],
       [words |-> {"timeout"}, category |-> "timeout"],
       [words |-> {"network", "connection"}, category |-> "network_error"],
       [words |-> {"memory", "resource"}, category |-> "resource_error"],
       [words |-> {"ffmpeg", "video"}, category |-> "video_processing_error"] >>

\* the category of the first group a message matches, unknown_error if none
FirstMatch(msg) ==
    LET hits == {i \in DOMAIN KeywordGroups : KeywordGroups[i].words \cap msg # {}} IN
    IF hits = {} THEN "unknown_error"
    ELSE KeywordGroups[CHOOSE i \in hits : \A k \in hits : i <= k].category

\* C25: error categorization is a total, deterministic function of the error
\* message that returns exactly one of the 8 categories, the one of the first
\* matching keyword group in the order quota/rate limit, api key/authentication,
\* storage/bucket, timeout, network/connection, memory/resource, ffmpeg/video,
\* else unknown_error: a message with "quota" and "timeout" gives quota_exceeded.
C25_FirstMatchingGroup ==
    \A j \in DOMAIN jobs :
        jobs[j].status = "failed" =>
            /\ jobs[j].error_category = FirstMatch(jobs[j].error)
            /\ jobs[j].error_category \in
                   {"quota_exceeded", "api_key_invalid", "storage_error", "timeout",
                    "network_error", "resource_error", "video_processing_error",
                    "unknown_error"}
            /\ {"quota", "timeout"} \subseteq jobs[j].error =>
                   jobs[j].error_category = "quota_exceeded"
            /\ \A k \in DOMAIN jobs :
                   jobs[k].status = "failed" /\ jobs[k].error = jobs[j].error =>
                       jobs[k].error_category = jobs[j].error_category

\* a job failed with a message holding "quota", "timeout" and "video"
C25_Witness ==
    \E j \in DOMAIN jobs :
        /\ jobs[j].status = "failed"
        /\ jobs[j].error = {"quota", "timeout", "video"}
        /\ jobs[j].error_category = "quota_exceeded"

\* C28: segment analysis is all-or-nothing per video: when the analysis of a
\* segment fails after its retries run raises and no result file is written,
\* even when other segments have produced results; a result file is written
\* only when every segment produced a result.
C28_AllOrNothing ==
    /\ runState = "written" =>
        /\ written = results
        /\ Len(written) = Len(segments)
        /\ {written[i] : i \in DOMAIN written} = {segments[s].idx : s \in SegIds}
    /\ runState = "raised" => written = <<>>
    /\ runState \in {"running", "returned", "written"} =>
        Cardinality({s \in SegIds : task[s].pc = "done"}) = Len(results)

\* run raised on a failed segment after other segments had produced results,
\* and no file was written
C28_Witness ==
    /\ runState = "raised"
    /\ Len(segments) = MaxSegments
    /\ Len(results) >= 2
    /\ written = <<>>

\* C29: shutdown is graceful: after stop() the worker finishes the job it is
\* processing and records its terminal status, claims nothing once the loop has
\* seen running = false, and the loop exits; no claimed job is left in
\* processing by a worker that has shut down, and current_job_id is none
\* whenever the worker is not inside job processing.
C29_GracefulShutdown ==
    \A w \in DOMAIN worker :
        /\ worker[w].pc \in {"loop", "sleep", "start", "exited"} =>
               worker[w].current_job_id = NoJob
        /\ worker[w].pc = "exited" =>
               /\ ~worker[w].running
               /\ worker[w].job = NoJob
               /\ worker[w].stoppedWith # NoJob =>
                      jobs[worker[w].stoppedWith].status \in Terminal

\* C30: the admission gate starves no segment: for every segment count N and
\* the cap of 3, every queued segment is admitted unless run has raised, a slot
\* is given back when a segment's analysis ends by success or by failure, run
\* ends, it raises only on a segment that failed, and when it returns it
\* returns exactly N results, one for each segment index, none twice.
C30_NoSegmentStarves ==
    /\ \A s \in 1..MaxSegments :
           (s \in DOMAIN task /\ task[s].pc = "queued")
               ~> (runState = "raised" \/ s \notin DOMAIN task \/ task[s].pc # "queued")
    /\ <>(runState \in {"written", "raised"})
    /\ [][/\ \A s \in SegIds :
                 task[s].pc = "return" /\ task'[s].pc = "done" => permits' = permits + 1
          /\ runState = "running" /\ runState' = "raised" =>
                 \E s \in SegIds : /\ task[s].pc = "return"
                                   /\ task[s].outcome # OkOutcome
                                   /\ task'[s].pc = "done"]_vars
    /\ [](runState \in {"returned", "written"} =>
            /\ Len(results) = Len(segments)
            /\ \A s \in SegIds :
                   Cardinality({i \in DOMAIN results : results[i] = segments[s].idx}) = 1)

\* run returned the results of more segments than the cap, none of which failed
C30_Witness ==
    /\ runState = "returned"
    /\ Len(segments) = MaxSegments
    /\ Len(results) = MaxSegments
    /\ permits = MaxConcurrent

====
